---- MODULE Spec2Model ----
(***************************************************************************)
(* Model of phpbb-pwhash (src/lib.rs): parse_hash, decode64 and check_hash. *)
(*                                                                         *)
(* A Rust &str is modelled as the sequence of its UTF-8 bytes (0..255);    *)
(* Rust's 0-based half-open ranges s[a..b] become SubSeq(s, a+1, b).       *)
(* A panic (slicing off a char boundary, unwrap of None) is the return     *)
(* value tagged "Panic".                                                   *)
(***************************************************************************)
EXTENDS Integers, Sequences, FiniteSets, Bags, TLC

VARIABLES
    salted_hash,   \* the encoded hash handed to the call (UTF-8 bytes)
    password,      \* the password handed to the call (UTF-8 bytes)
    pc,            \* "ready" before the call, "returned" after it
    called,        \* which public function was called
    result,        \* check_hash: the CheckHashResult (or a panic)
    parsed,        \* the Result of parse_hash (called directly or by check_hash)
    work           \* check_hash: its locals and the calls it made

vars == <<salted_hash, password, pc, called, result, parsed, work>>

(***************************************************************************)
(* Bytes and strings                                                       *)
(***************************************************************************)

\* ASCII codes of the characters the source names
ChDollar == 36
ChH == 72
ChDot == 46
ChPad == 61

\* static ALPHABET: "./0123456789ABCDEFGHIJKLMNOPQRSTUVWXYZabcdefghijklmnopqrstuvwxyz"
ALPHABET ==
    <<46, 47>> \o [i \in 1..10 |-> 47 + i] \o [i \in 1..26 |-> 64 + i]
               \o [i \in 1..26 |-> 96 + i]

\* a UTF-8 continuation byte (10xxxxxx)
IsContinuation(b) == b >= 128 /\ b <= 191

\* str::is_char_boundary, as used by the range index &s[a..b]
IsCharBoundary(s, i) ==
    \/ i = 0
    \/ i = Len(s)
    \/ (i < Len(s) /\ ~IsContinuation(s[i + 1]))

\* &s[a..b]: defined only when a <= b <= len and both ends are char boundaries
SliceOk(s, a, b) ==
    a <= b /\ b <= Len(s) /\ IsCharBoundary(s, a) /\ IsCharBoundary(s, b)

Slice(s, a, b) == SubSeq(s, a + 1, b)

\* 0-based byte offsets at which a char of s starts, in increasing order
CharStarts(s) == {i \in 0..(Len(s) - 1) : ~IsContinuation(s[i + 1])}

\* s.chars().nth(n): the bytes of the n-th char (0-based), <<>> for None
CharsNth(s, n) ==
    LET starts == CharStarts(s)
        at == {i \in starts : Cardinality({j \in starts : j < i}) = n}
    IN  IF at = {} THEN <<>>
        ELSE LET i == CHOOSE x \in at : TRUE
                 later == {j \in starts : j > i}
                 stop == IF later = {} THEN Len(s)
                         ELSE CHOOSE j \in later : \A k \in later : j <= k
             IN  Slice(s, i, stop)

\* ALPHABET.find(c) for a char c given as its bytes: the 0-based offset, -1 for None
AlphabetFind(c) ==
    IF Len(c) = 1 /\ \E i \in 1..64 : ALPHABET[i] = c[1]
    THEN (CHOOSE i \in 1..64 : ALPHABET[i] = c[1]) - 1
    ELSE -1

\* 1 << offset on usize (offset <= 30 in every call, so no bit is lost)
Shl1(offset) == 2 ^ offset

(***************************************************************************)
(* parse_hash                                                              *)
(***************************************************************************)

HashLen == 34
MinOffset == 7
MaxOffset == 30

NoParsed == [hash_type |-> <<>>, rounds |-> 0, salt |-> <<>>, hashed |-> <<>>]

ParseErr(e) == [tag |-> "Err", err |-> e, parsed |-> NoParsed]
ParsePanic == [tag |-> "Panic", err |-> "-", parsed |-> NoParsed]
ParseOk(p) == [tag |-> "Ok", err |-> "-", parsed |-> p]

\* variant of BadLength: only a short string is refused (len() < 34)
BadLengthOnlyShorter(s) == Len(s) < HashLen

\* if salted_hash.len() != 34
BadLength(s) == Len(s) # HashLen

\* variant of OffsetOutOfRange: the lower comparison off by one (offset <= 7)
OffsetOutOfRangeAtSeven(offset) == offset <= MinOffset \/ offset > MaxOffset

\* Some(offset) if offset < 7 || offset > 30
OffsetOutOfRange(offset) == offset < MinOffset \/ offset > MaxOffset

parse_hash(s) ==
    IF BadLength(s) THEN ParseErr("BadLength")
    ELSE IF ~SliceOk(s, 0, 3) THEN ParsePanic
    ELSE IF Slice(s, 0, 3) # <<ChDollar, ChH, ChDollar>>
         THEN ParseErr("UnsupportedHashType")
    ELSE LET c == CharsNth(s, 3)
             offset == AlphabetFind(c)
         IN  IF c = <<>> THEN ParsePanic
             ELSE IF offset = -1 THEN ParseErr("InvalidRounds")
             ELSE IF OffsetOutOfRange(offset) THEN ParseErr("InvalidRounds")
             ELSE IF ~SliceOk(s, 4, 12) THEN ParsePanic
             ELSE IF ~SliceOk(s, 12, Len(s)) THEN ParsePanic
             ELSE ParseOk([hash_type |-> Slice(s, 0, 3),
                           rounds |-> Shl1(offset),
                           salt |-> Slice(s, 4, 12),
                           hashed |-> Slice(s, 12, Len(s))])

(***************************************************************************)
(* base64::decode_config(input, base64::CRYPT)                             *)
(*                                                                         *)
(* The crypt(3) character set is ALPHABET.  Decoding does not demand       *)
(* padding but tolerates '=' at the end of the last quad; it rejects any   *)
(* other byte outside the character set (InvalidByte), an impossible       *)
(* length (InvalidLength) and non-zero bits in the last symbol that fall   *)
(* outside the output (InvalidLastSymbol, decode_allow_trailing_bits being *)
(* false in CRYPT).                                                        *)
(***************************************************************************)

\* the decode table of the character set: the 6-bit value of a byte, -1 for
\* a byte outside it; the input is worked in chunks of 8 bytes
DecodeTable(b) == AlphabetFind(<<b>>)

NoDecodeError == [kind |-> "-", index |-> 0, byte |-> 0]
InvalidByte(i, b) == [kind |-> "InvalidByte", index |-> i, byte |-> b]
InvalidLength == [kind |-> "InvalidLength", index |-> 0, byte |-> 0]
InvalidLastSymbol(i, b) == [kind |-> "InvalidLastSymbol", index |-> i, byte |-> b]

\* the complete chunks before the last one hold symbols only
FirstInvalid(input, upto) ==
    LET bad == {i \in 0..(upto - 1) : DecodeTable(input[i + 1]) = -1}
    IN  IF bad = {} THEN -1 ELSE CHOOSE i \in bad : \A j \in bad : i <= j

RECURSIVE LeftoverScan(_, _, _, _, _)
\* the last chunk, byte by byte: symbols, then at most two '=' closing a quad
LeftoverScan(lo, i, morsels, padding_bytes, first_padding_index) ==
    IF i = Len(lo)
    THEN [err |-> NoDecodeError, morsels |-> morsels]
    ELSE LET b == lo[i + 1] IN
         IF b = ChPad
         THEN IF i % 4 < 2
              THEN [err |-> InvalidByte(IF padding_bytes > 0
                                        THEN first_padding_index ELSE i, b),
                    morsels |-> morsels]
              ELSE LeftoverScan(lo, i + 1, morsels, padding_bytes + 1,
                                IF padding_bytes = 0 THEN i
                                ELSE first_padding_index)
         ELSE IF padding_bytes > 0
              THEN [err |-> InvalidByte(first_padding_index, ChPad),
                    morsels |-> morsels]
         ELSE IF DecodeTable(b) = -1
              THEN [err |-> InvalidByte(i, b), morsels |-> morsels]
         ELSE LeftoverScan(lo, i + 1, Append(morsels, DecodeTable(b)),
                           padding_bytes, first_padding_index)

\* bits of the last symbol that do not reach the output
TrailingBits(morsels) ==
    LET m == Len(morsels)
        unused == (6 * m) % 8
    IN  IF m = 0 THEN 0 ELSE morsels[m] % Shl1(unused)

\* 4 symbols -> 3 bytes, most significant bits first
QuadByte(morsels, k) ==
    LET q == 4 * (k \div 3)
        m(j) == IF q + j <= Len(morsels) THEN morsels[q + j] ELSE 0
    IN  CASE k % 3 = 0 -> m(1) * 4 + (m(2) \div 16)
          [] k % 3 = 1 -> (m(2) % 16) * 16 + (m(3) \div 4)
          [] OTHER     -> (m(3) % 4) * 64 + m(4)

MorselsToBytes(morsels) ==
    [k \in 1..((6 * Len(morsels)) \div 8) |-> QuadByte(morsels, k - 1)]

DecodeOk(bytes) == [ok |-> TRUE, bytes |-> bytes, err |-> NoDecodeError]
DecodeErr(e) == [ok |-> FALSE, bytes |-> <<>>, err |-> e]

decode_config(input) ==
    LET n == Len(input)
        remainder_len == n % 8
    IN  IF n = 0 THEN DecodeOk(<<>>)
        ELSE IF remainder_len = 1 \/ remainder_len = 5
        THEN IF input[n] # ChPad /\ DecodeTable(input[n]) = -1
             THEN DecodeErr(InvalidByte(n - 1, input[n]))
             ELSE DecodeErr(InvalidLength)
        ELSE LET start == n - (IF remainder_len = 0 THEN 8
                               ELSE remainder_len)
                 bad == FirstInvalid(input, start)
                 scan == LeftoverScan(Slice(input, start, n), 0, <<>>, 0, 0)
                 morsels == [i \in 1..start |-> DecodeTable(input[i])]
                                \o scan.morsels
             IN  IF bad # -1 THEN DecodeErr(InvalidByte(bad, input[bad + 1]))
                 ELSE IF scan.err.kind # "-"
                 THEN DecodeErr([scan.err EXCEPT !.index = @ + start])
                 ELSE IF TrailingBits(scan.morsels) # 0
                 THEN DecodeErr(InvalidLastSymbol(
                          start + Len(scan.morsels) - 1,
                          scan.morsels[Len(scan.morsels)]))
                 ELSE DecodeOk(MorselsToBytes(morsels))

(***************************************************************************)
(* decode64                                                                *)
(***************************************************************************)

DigestLen == 16

Reverse(s) == [i \in 1..Len(s) |-> s[Len(s) + 1 - i]]

\* .take(n)
Take(s, n) == SubSeq(s, 1, IF Len(s) < n THEN Len(s) ELSE n)

\* std::iter::repeat(b'.').take(3 - len % 3)
Padding(len) == [i \in 1..(3 - (len % 3)) |-> ChDot]

\* variant of decode64: a field is refused unless the bytes not kept are zero
decode64CanonicalOnly(val) ==
    LET decoded == decode_config(Padding(Len(val)) \o Reverse(val))
        bytes == Reverse(decoded.bytes)
    IN  IF ~decoded.ok THEN decoded
        ELSE IF \E i \in (DigestLen + 1)..Len(bytes) : bytes[i] # 0
        THEN DecodeErr(InvalidLength)
        ELSE DecodeOk(Take(bytes, DigestLen))

\* variant of decode64: the decoded bytes are not reversed back
decode64NotReversedBack(val) ==
    LET decoded == decode_config(Padding(Len(val)) \o Reverse(val))
    IN  IF ~decoded.ok THEN decoded
        ELSE DecodeOk(Take(decoded.bytes, DigestLen))

decode64(val) ==
    LET decoded == decode_config(Padding(Len(val)) \o Reverse(val))
    IN  IF ~decoded.ok THEN decoded
        ELSE DecodeOk(Take(Reverse(decoded.bytes), DigestLen))

(***************************************************************************)
(* md5::compute                                                            *)
(*                                                                         *)
(* The digest is an external primitive.  It is modelled as a deterministic *)
(* function of the whole message (every byte and the length count) whose   *)
(* 16-byte values range over NumDigests distinct digests.                  *)
(***************************************************************************)

NumDigests == 5

\* the k-th digest, k in 0..NumDigests-1, as 16 bytes
Md5Value(k) == [i \in 1..DigestLen |-> ((i * i * 7 + 13 * i + 5) % 200) + k]

\* the sum over the message of (byte + 1) times a weight 1..7 set by position
WeightedSum(m) ==
    BagCardinality([i \in 1..Len(m) |-> ((i % 7) + 1) * (m[i] + 1)])

\* which digest a message has
Md5Index(m) == (WeightedSum(m) + Len(m)) % NumDigests

md5_compute(m) == Md5Value(Md5Index(m))

\* the index k of a digest value
IndexOfDigest(hash) == CHOOSE k \in 0..(NumDigests - 1) : Md5Value(k) = hash

(***************************************************************************)
(* check_hash                                                              *)
(***************************************************************************)

MaxPasswordLen == 4096

\* variant of PasswordTooLong: the bound off by one (len() > 4097)
PasswordTooLongAbove4097(pw) == Len(pw) > MaxPasswordLen + 1

\* if password.len() > 4096
PasswordTooLong(pw) == Len(pw) > MaxPasswordLen

\* variant of InitialHash: password first, salt second
InitialHashPasswordFirst(salt, pw) == md5_compute(pw \o salt)

\* buf = salt ++ password; hash = md5::compute(&buf)
InitialHash(salt, pw) == md5_compute(salt \o pw)

\* buf = hash.0 ++ password_bytes; hash = md5::compute(&buf)
Round(hash, pw) == md5_compute(hash \o pw)

\* e, once v has its value (operator arguments are evaluated on demand, which
\* would nest the evaluation of a long composition as deep as it is long)
Strict(v, e) == IF v = v THEN e ELSE e

RECURSIVE ComposeUpTo(_, _, _)
\* the tuple <<f[g[1]], ..., f[g[k]]>>
ComposeUpTo(f, g, k) ==
    IF k = 0 THEN <<>> ELSE Append(ComposeUpTo(f, g, k - 1), f[g[k]])

Compose(f, g) == ComposeUpTo(f, g, Len(g))

Identity(k) == [table |-> [i \in 1..k |-> i], steps |-> 0]

\* g after f, the rounds of both counted
Then(f, g) == [table |-> Compose(g.table, f.table), steps |-> f.steps + g.steps]

RECURSIVE StepPow(_, _)
\* f applied n times (n reaches 2^30, so the iterations are composed pairwise
\* instead of being unrolled): the resulting table and the rounds it stands for
StepPow(f, n) ==
    IF n = 0 THEN Identity(Len(f.table))
    ELSE IF n % 2 = 1
    THEN LET g == StepPow(f, n - 1) IN Strict(g, Then(g, f))
    ELSE LET g == StepPow(f, n \div 2) IN Strict(g, Then(g, g))

RECURSIVE RoundEntries(_, _)
\* one round as a table over the first k digests: entry i is the index (plus
\* one) of Round(Md5Value(i - 1), pw)
RoundEntries(pw, k) ==
    IF k = 0 THEN <<>>
    ELSE Append(RoundEntries(pw, k - 1),
                1 + IndexOfDigest(Round(Md5Value(k - 1), pw)))

RoundTable(pw) == [table |-> RoundEntries(pw, NumDigests), steps |-> 1]

\* variant of HashLoop: the range taken inclusive (0..=parsed.rounds)
HashLoopInclusive(hash, pw, rounds) ==
    LET round == RoundTable(pw)
        loop == Strict(round, StepPow(round, rounds + 1))
    IN  [hash |-> Md5Value(loop.table[1 + IndexOfDigest(hash)] - 1),
         md5_calls |-> loop.steps]

\* for _ in 0..parsed.rounds { hash = md5(hash ++ password) }
HashLoop(hash, pw, rounds) ==
    LET round == RoundTable(pw)
        loop == Strict(round, StepPow(round, rounds))
    IN  [hash |-> Md5Value(loop.table[1 + IndexOfDigest(hash)] - 1),
         md5_calls |-> loop.steps]

ResValid == [tag |-> "Valid", reason |-> "-", detail |-> NoDecodeError]
ResInvalid == [tag |-> "Invalid", reason |-> "-", detail |-> NoDecodeError]
ResPasswordTooLong ==
    [tag |-> "PasswordTooLong", reason |-> "-", detail |-> NoDecodeError]
ResInvalidHash(e) == [tag |-> "InvalidHash", reason |-> e, detail |-> NoDecodeError]
ResInvalidBase64(d) ==
    [tag |-> "InvalidHash", reason |-> "InvalidBase64", detail |-> d]
ResPanic == [tag |-> "Panic", reason |-> "-", detail |-> NoDecodeError]
NoResult == [tag |-> "-", reason |-> "-", detail |-> NoDecodeError]

NotParsed == [tag |-> "-", err |-> "-", parsed |-> NoParsed]

NoWork == [parse_calls |-> 0, decode_calls |-> 0, md5_calls |-> 0,
           decoded_hashed |-> <<>>, hash |-> <<>>]

check_hash(s, pw) ==
    IF PasswordTooLong(pw)
    THEN [result |-> ResPasswordTooLong, parsed |-> NotParsed, work |-> NoWork]
    ELSE LET p == parse_hash(s)
             w1 == [NoWork EXCEPT !.parse_calls = 1]
         IN
         IF p.tag = "Panic"
         THEN [result |-> ResPanic, parsed |-> p, work |-> w1]
         ELSE IF p.tag = "Err"
         THEN [result |-> ResInvalidHash(p.err), parsed |-> p, work |-> w1]
         ELSE LET d == decode64(p.parsed.hashed)
                  w2 == [w1 EXCEPT !.decode_calls = 1]
              IN
              IF ~d.ok
              THEN [result |-> ResInvalidBase64(d.err), parsed |-> p, work |-> w2]
              ELSE LET loop == HashLoop(InitialHash(p.parsed.salt, pw), pw,
                                        p.parsed.rounds)
                       w3 == [w2 EXCEPT !.md5_calls = 1 + loop.md5_calls,
                                        !.decoded_hashed = d.bytes,
                                        !.hash = loop.hash]
                   IN  [result |-> IF loop.hash = d.bytes THEN ResValid
                                   ELSE ResInvalid,
                        parsed |-> p, work |-> w3]

(***************************************************************************)
(* encode64 of the scheme (the repository only decodes): 6 bits per        *)
(* character, least significant bits first, 22 characters for 16 bytes.    *)
(***************************************************************************)

FieldLen == 22

BitOfBytes(bytes, i) ==
    IF i < 8 * Len(bytes) THEN (bytes[(i \div 8) + 1] \div Shl1(i % 8)) % 2 ELSE 0

encode64(bytes) ==
    [j \in 1..FieldLen |->
        ALPHABET[1 + BitOfBytes(bytes, 6 * (j - 1))
                   + 2 * BitOfBytes(bytes, 6 * (j - 1) + 1)
                   + 4 * BitOfBytes(bytes, 6 * (j - 1) + 2)
                   + 8 * BitOfBytes(bytes, 6 * (j - 1) + 3)
                   + 16 * BitOfBytes(bytes, 6 * (j - 1) + 4)
                   + 32 * BitOfBytes(bytes, 6 * (j - 1) + 5)]]

(***************************************************************************)
(* The calls examined: encoded hashes and passwords                        *)
(***************************************************************************)

\* how many bytes the over-long encoded hashes exceed 34 by
MaxExtraLen == 2

TagH == <<ChDollar, ChH, ChDollar>>
\* "$X$"
TagX == <<ChDollar, 88, ChDollar>>

\* "/O41.qQj" and "PoEptdBN" (salts of the tests)
Salt1 == <<47, 79, 52, 49, 46, 113, 81, 106>>
Salt2 == <<80, 111, 69, 112, 116, 100, 66, 78>>

\* "QNlleivjbckbSNpfS4xgh0" (digest field of the first test)
Field1 == <<81, 78, 108, 108, 101, 105, 118, 106, 98, 99, 107, 98, 83, 78, 112, 102, 83, 52, 120, 103, 104, 48>>
FieldDots == [i \in 1..FieldLen |-> ChDot]
FieldPad == <<ChPad>> \o [i \in 1..(FieldLen - 1) |-> ChDot]

\* "$H$9/O41.qQjQNlleivjbckbSNpfS4xgh0"
Hash1 == TagH \o <<57>> \o Salt1 \o Field1

\* '.'(0) '4'(6) '5'(7) '9'(11) 'S'(30) 'T'(31) 'z'(63) '1'(3) and '!' (absent)
RoundsChars == {46, 52, 53, 57, 83, 84, 122, 49, 33}

\* characters at offsets 1, 2, 4, 8, 16, 32, 63 of the alphabet, '=', '!'
SampleChars == {47, 48, 50, 54, 69, 85, 122, ChPad, 33}

\* U+00E9 in UTF-8
EAcute == <<195, 169>>

Replace(s, i, c) == [s EXCEPT ![i] = c]

\* the encodings of the digests, the last character also with high bits set
DigestFields ==
    {Replace(encode64(d), FieldLen,
             ALPHABET[AlphabetFind(<<encode64(d)[FieldLen]>>) + 1 + hi])
        : d \in {Md5Value(k) : k \in 0..(NumDigests - 1)}, hi \in {0, 4, 60}}

\* tag, rounds character, salt and digest field in every combination
StringsA ==
    {tag \o <<rc>> \o salt \o field :
        tag \in {TagH, TagX}, rc \in RoundsChars,
        salt \in {Salt1, Salt2}, field \in DigestFields}

\* one character of a digest field replaced, at 2^11 rounds and ('!' only) at
\* the lowest and the highest number of rounds
StringsB ==
    {TagH \o <<57>> \o Salt1 \o Replace(f, i, c) :
        f \in {Field1, FieldDots, FieldPad}, i \in 1..FieldLen, c \in SampleChars}
        \cup {TagH \o <<rc>> \o Salt1 \o Replace(Field1, 5, 33) : rc \in {53, 83}}

\* a two-byte character over bytes k, k+1 of a 34-byte hash
StringsC ==
    {SubSeq(Hash1, 1, k) \o EAcute \o SubSeq(Hash1, k + 3, HashLen) :
        k \in 0..(HashLen - 2)}

\* other lengths: shorter, longer, and 34 characters in 35 bytes
StringsD ==
    {SubSeq(Hash1, 1, n) : n \in {0, 3, 4, 12, HashLen - 1}}
        \cup {Hash1 \o [i \in 1..n |-> 48 + i] : n \in 1..MaxExtraLen}
        \cup {SubSeq(Hash1, 1, HashLen - 1) \o EAcute}

ShortPasswords == {<<112, 97, 115, 115, 49, 50, 51, 52>>, <<112, 97, 115, 115, 49, 50, 51, 53>>, <<>>}

LongPassword(n) == [i \in 1..n |-> 97]

LongPasswords == {LongPassword(MaxPasswordLen), LongPassword(MaxPasswordLen + 1)}

\* the hashes tried with the long passwords
StringsLong ==
    {TagH \o <<rc>> \o Salt1 \o field : rc \in {53, 83}, field \in DigestFields}
        \cup {s \in StringsC : s[3] = 195 \/ s[12] = 195 \/ s[34] = 169}
        \cup StringsD
        \cup {TagX \o <<57>> \o Salt1 \o Field1,
              TagH \o <<49>> \o Salt1 \o Field1,
              TagH \o <<57>> \o Salt1 \o Replace(Field1, 1, ChPad),
              TagH \o <<57>> \o Salt1 \o Replace(Field1, 5, 33)}

Inputs ==
    ((StringsA \cup StringsB \cup StringsC \cup StringsD) \X ShortPasswords)
        \cup (StringsLong \X LongPasswords)

(***************************************************************************)
(* The state machine: one call of a public function on one input           *)
(***************************************************************************)

Init ==
    /\ \E input \in Inputs :
           /\ salted_hash = input[1]
           /\ password = input[2]
    /\ pc = "ready"
    /\ called = "none"
    /\ result = NoResult
    /\ parsed = NotParsed
    /\ work = NoWork

CallCheckHash ==
    /\ pc = "ready"
    /\ LET r == check_hash(salted_hash, password)
       IN  /\ result' = r.result
           /\ parsed' = r.parsed
           /\ work' = r.work
    /\ pc' = "returned"
    /\ called' = "check_hash"
    /\ UNCHANGED <<salted_hash, password>>

CallParseHash ==
    /\ pc = "ready"
    /\ parsed' = parse_hash(salted_hash)
    /\ pc' = "returned"
    /\ called' = "parse_hash"
    /\ UNCHANGED <<salted_hash, password, result, work>>

Next == CallCheckHash \/ CallParseHash

Spec == Init /\ [][Next]_vars

(***************************************************************************)
(* Reference definitions used by the properties                            *)
(***************************************************************************)

\* the characters ./0-9A-Za-z and their positions 0..63
AlphabetChars == {46, 47} \cup (48..57) \cup (65..90) \cup (97..122)

AlphaPos(b) ==
    IF b <= 47 THEN b - 46
    ELSE IF b <= 57 THEN b - 48 + 2
    ELSE IF b <= 90 THEN b - 65 + 12
    ELSE b - 97 + 38

IsAscii(s) == \A i \in 1..Len(s) : s[i] < 128

OverAlphabet(s) == \A i \in 1..Len(s) : s[i] \in AlphabetChars

\* 34 ASCII characters, "$H$", a rounds character at position 7..30
WellFormedHead(s) ==
    /\ Len(s) = 34
    /\ IsAscii(s)
    /\ SubSeq(s, 1, 3) = <<36, 72, 36>>
    /\ s[4] \in AlphabetChars
    /\ AlphaPos(s[4]) >= 7
    /\ AlphaPos(s[4]) <= 30

WellFormed(s) == WellFormedHead(s) /\ OverAlphabet(SubSeq(s, 13, 34))

\* bit i of the number sum_j pos(c[j]) * 64^j of a field c
FieldBit(c, i) == (AlphaPos(c[(i \div 6) + 1]) \div (2 ^ (i % 6))) % 2

\* the 16 low bytes of that number, least significant byte first
RefDecode(c) ==
    [k \in 1..16 |->
        FieldBit(c, 8 * (k - 1)) + 2 * FieldBit(c, 8 * (k - 1) + 1)
        + 4 * FieldBit(c, 8 * (k - 1) + 2) + 8 * FieldBit(c, 8 * (k - 1) + 3)
        + 16 * FieldBit(c, 8 * (k - 1) + 4) + 32 * FieldBit(c, 8 * (k - 1) + 5)
        + 64 * FieldBit(c, 8 * (k - 1) + 6) + 128 * FieldBit(c, 8 * (k - 1) + 7)]

RECURSIVE RefIterate(_, _, _)
\* h := Digest(h ++ pw), n times, one at a time
RefIterate(h, pw, n) ==
    IF n = 0 THEN h ELSE RefIterate(md5_compute(h \o pw), pw, n - 1)

\* h0 = Digest(salt ++ pw) followed by 2^p steps h := Digest(h ++ pw).  The
\* digests range over NumDigests values, so after NumDigests steps the
\* sequence is on a cycle, of a length found by walking it; the remaining
\* steps are taken modulo that length.
RefDigest(salt, pw, p) ==
    LET h0 == md5_compute(salt \o pw)
        hN == RefIterate(h0, pw, NumDigests)
        lens == {l \in 1..NumDigests : RefIterate(hN, pw, l) = hN}
        cycle == CHOOSE l \in lens : \A m \in lens : l <= m
    IN  RefIterate(hN, pw, ((2 ^ p) - NumDigests) % cycle)

CheckReturned == pc = "returned" /\ called = "check_hash"
ParseReturned == pc = "returned" /\ called = "parse_hash"

(***************************************************************************)
(* Properties                                                              *)
(***************************************************************************)

\* C1: for a password of at most 4096 bytes and a well-formed encoded hash,
\* check_hash returns Valid exactly when the digest after the initial salted
\* digest and 2^p further rounds equals the 16 bytes the digest field
\* encodes, and Invalid otherwise.
ValidIffIteratedDigestMatches ==
    (CheckReturned /\ Len(password) <= 4096 /\ WellFormed(salted_hash)) =>
        result = IF RefDigest(SubSeq(salted_hash, 5, 12), password,
                              AlphaPos(salted_hash[4]))
                    = RefDecode(SubSeq(salted_hash, 13, 34))
                 THEN ResValid ELSE ResInvalid

\* a 4096-byte password found Valid against a hash of 2^30 rounds
WitnessValidAtMaxRounds ==
    /\ CheckReturned
    /\ WellFormed(salted_hash)
    /\ Len(password) = 4096
    /\ AlphaPos(salted_hash[4]) = 30
    /\ result = ResValid

\* C2: a password longer than 4096 bytes gives PasswordTooLong whatever the
\* encoded string is, and nothing has been parsed, decoded or digested.
LongPasswordRejectedFirst ==
    (CheckReturned /\ Len(password) > 4096) =>
        /\ result = ResPasswordTooLong
        /\ parsed = NotParsed
        /\ work = NoWork

\* a 4097-byte password rejected although the hash is well formed
WitnessLongPasswordRejected ==
    /\ CheckReturned
    /\ Len(password) = 4097
    /\ WellFormed(salted_hash)
    /\ result = ResPasswordTooLong

\* C3 (as stated): an encoded string whose length is not 34 gives
\* InvalidHash(BadLength) whatever the password is.
BadLengthWhateverPassword ==
    (CheckReturned /\ Len(salted_hash) # 34) =>
        result = ResInvalidHash("BadLength")

\* C3 (amended): an encoded string whose length in bytes is not 34 gives
\* InvalidHash(BadLength) for every password of at most 4096 bytes, and
\* parse_hash gives BadLength for it.
BadLengthUnlessPasswordTooLong ==
    /\ (CheckReturned /\ Len(salted_hash) # 34 /\ Len(password) <= 4096) =>
           result = ResInvalidHash("BadLength")
    /\ (ParseReturned /\ Len(salted_hash) # 34) =>
           parsed = ParseErr("BadLength")

\* the 36-byte hash of the tests found BadLength
WitnessBadLength ==
    /\ CheckReturned
    /\ Len(salted_hash) = 36
    /\ Len(password) = 8
    /\ result = ResInvalidHash("BadLength")

\* C4: a digest field holding a character outside the alphabet, in an
\* otherwise well-formed (ASCII) encoded hash, makes check_hash return
\* InvalidHash(InvalidBase64(detail)).
ForeignCharacterIsInvalidBase64 ==
    (/\ CheckReturned
     /\ Len(password) <= 4096
     /\ WellFormedHead(salted_hash)
     /\ ~OverAlphabet(SubSeq(salted_hash, 13, 34))) =>
        (result.tag = "InvalidHash" /\ result.reason = "InvalidBase64")

\* C5: check_hash returns one of Valid, Invalid, PasswordTooLong,
\* InvalidHash(reason) for every encoded string and password; it never panics.
CheckHashNeverPanics ==
    CheckReturned =>
        result.tag \in {"Valid", "Invalid", "PasswordTooLong", "InvalidHash"}

\* C6: re-encoding the bytes decoded from an accepted digest field
\* reproduces the field, so no other field that differs from it in the last
\* character decodes to the same bytes.
DecodeEncodeRoundTrip ==
    (CheckReturned /\ work.md5_calls > 0) =>
        LET field == parsed.parsed.hashed
        IN  /\ encode64(work.decoded_hashed) = field
            /\ \A x \in AlphabetChars \ {field[FieldLen]} :
                   decode64(Replace(field, FieldLen, x))
                       # DecodeOk(work.decoded_hashed)

\* C7 (as stated): one check_hash call makes at most 2^30 digest calls.
AtMostTwoPow30Digests ==
    CheckReturned => work.md5_calls <= 2 ^ 30

\* C7 (amended): one check_hash call makes at most 2^30 + 1 digest calls:
\* none when it returns before the initial digest, else 1 + 2^p.
AtMostTwoPow30PlusOneDigests ==
    CheckReturned =>
        /\ work.md5_calls <= (2 ^ 30) + 1
        /\ result.tag \in {"Valid", "Invalid"} =>
               work.md5_calls = 1 + 2 ^ AlphaPos(salted_hash[4])
        /\ result.tag \notin {"Valid", "Invalid"} => work.md5_calls = 0

\* a check at rounds character 'S' (position 30) ran 2^30 + 1 digests
WitnessMaxDigests ==
    /\ CheckReturned
    /\ Len(salted_hash) = 34
    /\ salted_hash[4] = 83
    /\ work.md5_calls = (2 ^ 30) + 1

\* the result of parse_hash on 34 ASCII characters, check by check
RefParse(s) ==
    IF SubSeq(s, 1, 3) # <<36, 72, 36>> THEN ParseErr("UnsupportedHashType")
    ELSE IF s[4] \notin AlphabetChars \/ AlphaPos(s[4]) < 7 \/ AlphaPos(s[4]) > 30
    THEN ParseErr("InvalidRounds")
    ELSE ParseOk([hash_type |-> <<36, 72, 36>>,
                  rounds |-> 2 ^ AlphaPos(s[4]),
                  salt |-> SubSeq(s, 5, 12),
                  hashed |-> SubSeq(s, 13, 34)])

\* C8: on 34 ASCII characters parse_hash reports UnsupportedHashType when
\* the tag is not "$H$", else InvalidRounds exactly when character 3 is
\* outside the alphabet or at a position below 7 or above 30, else succeeds
\* with rounds 2^p ('9' giving 2^11), salt s[4..12] and digest field
\* s[12..34] verbatim.
ParseReportsFirstFailingCheck ==
    (ParseReturned /\ Len(salted_hash) = 34 /\ IsAscii(salted_hash)) =>
        /\ parsed = RefParse(salted_hash)
        /\ (parsed.tag = "Ok" /\ salted_hash[4] = 57) =>
               parsed.parsed.rounds = 2048
        /\ parsed.tag = "Ok" =>
               (parsed.parsed.rounds >= 128 /\ parsed.parsed.rounds <= 2 ^ 30)

\* rounds character '5' (position 7) parsed to 2^7 rounds, the field of the
\* hash holding a character outside the alphabet
WitnessParseLowestRounds ==
    /\ ParseReturned
    /\ Len(salted_hash) = 34
    /\ IsAscii(salted_hash)
    /\ ~OverAlphabet(SubSeq(salted_hash, 13, 34))
    /\ salted_hash[4] = 53
    /\ parsed.tag = "Ok"
    /\ parsed.parsed.rounds = 128

\* C9: for a 22-character field over the alphabet decode64 returns the 16
\* low bytes, least significant first, of sum_j pos(c[j]) * 64^j; the two
\* bytes dropped are the ones the padding reaches (the first byte decoded
\* is 0, the second holds only the 4 high bits of the last character).
DecodeIsLeastSignificantFirst ==
    (CheckReturned /\ parsed.tag = "Ok" /\ OverAlphabet(parsed.parsed.hashed)) =>
        LET field == parsed.parsed.hashed
            padded == decode_config(<<46, 46>> \o Reverse(field))
        IN  /\ work.decode_calls = 1
            /\ Len(work.decoded_hashed) = 16
            /\ work.decoded_hashed = RefDecode(field)
            /\ padded.ok
            /\ Len(padded.bytes) = 18
            /\ padded.bytes[1] = 0
            /\ padded.bytes[2] = AlphaPos(field[22]) \div 4
            /\ work.decoded_hashed = Reverse(SubSeq(padded.bytes, 3, 18))

\* a field with high bits in its last character and a non-zero first
\* character was decoded
WitnessDecodeLsbFirst ==
    /\ CheckReturned
    /\ parsed.tag = "Ok"
    /\ OverAlphabet(parsed.parsed.hashed)
    /\ AlphaPos(parsed.parsed.hashed[22]) = 63
    /\ AlphaPos(parsed.parsed.hashed[1]) > 0
    /\ Len(work.decoded_hashed) = 16

\* the alphabet characters whose position agrees modulo 4 with that of c
SameLowBits(c) == {x \in AlphabetChars : AlphaPos(x) % 4 = AlphaPos(c) % 4}

\* C10: two well-formed encoded hashes that differ only in the last
\* character, at alphabet positions congruent modulo 4, get the same result
\* with every password; so a Valid hash has exactly 16 Valid variants of its
\* last character.
HighBitsOfLastCharacterIgnored ==
    (CheckReturned /\ WellFormed(salted_hash)) =>
        /\ \A x \in SameLowBits(salted_hash[34]) :
               check_hash(Replace(salted_hash, 34, x), password).result = result
        /\ result = ResValid =>
               Cardinality({x \in AlphabetChars :
                   check_hash(Replace(salted_hash, 34, x), password).result
                       = ResValid}) = 16

\* a hash whose last character has high bits set was found Valid
WitnessValidWithHighBits ==
    /\ CheckReturned
    /\ WellFormed(salted_hash)
    /\ AlphaPos(salted_hash[34]) >= 4
    /\ result = ResValid

====
